---------------------------- MODULE Spec2Model ----------------------------
(***************************************************************************)
(* file_to_html: files or directory trees packaged into HTML documents     *)
(* that embed (optionally nested, optionally AES encrypted) ZIP data.      *)
(*                                                                         *)
(* The repository holds three generations of the same pipeline:            *)
(*   "main"    src/src/main.rs (one file, own copies of every routine)     *)
(*   "convert" src/src/convert.rs + file.rs + zip.rs + utils.rs, entered   *)
(*             from cli.rs / interactive.rs                                *)
(*   "facade"  src/src/facade/conversion_facade.rs + service/html.rs,      *)
(*             entered from action/cli.rs / action/interactive.rs          *)
(* One run of one generation is one behaviour of this module.              *)
(*                                                                         *)
(* Text is modelled as a sequence of one-character strings, so that        *)
(* format!, replace, file_name and the regex search are computed and not   *)
(* assumed.  File contents are symbolic: Raw(p) is "the bytes of file p".  *)
(***************************************************************************)
EXTENDS Integers, Sequences, FiniteSets, TLC

VARIABLES
    rev,        \* generation of the pipeline that runs
    entry,      \* "cli", "interactive" or "api" (a direct call of execute_conversion)
    cfg,        \* the configuration handed to the pipeline
    tree,       \* the input tree on disk
    pc,         \* position of the run in the pipeline
    files,      \* the selected list (Vec<PathBuf>)
    total_size, \* total size returned by the selection
    password,   \* the resolved secret, None when absent
    next_file,  \* per-file mode: index of the next file to convert
    buffer,     \* whole-tree mode: the inner archive (inner_zip_buffer)
    units,      \* what was handed to the HTML renderer, one record per unit
    outdir,     \* files written to the output directory: name -> content
    log,        \* the order of the pipeline's steps
    result,     \* "running", "ok" or the error the run returned
    env,        \* what the secret is made from: the characters the random
                \* generator yields, the local time, the preset and typed text
    secret,     \* the text generate_password returned (Option<String>)
    resolved    \* facade: the AppConfig the configuration adapter returned

vars == <<rev, entry, cfg, tree, pc, files, total_size, password, next_file,
          buffer, units, outdir, log, result, env, secret, resolved>>

None == "None"

---------------------------------------------------------------------------
(* Bounds of the model *)

\* most files in one input tree
MaxFiles == 2

\* file.rs:28 / main.rs:996: bytes per MB in the size cap comparison
BytesPerMB == 1048576

---------------------------------------------------------------------------
(* Text helpers *)

RECURSIVE ReplaceChar(_, _, _)
\* str::replace(c, r) for a one-character needle c
ReplaceChar(s, c, r) ==
    IF s = <<>> THEN <<>>
    ELSE (IF Head(s) = c THEN r ELSE <<Head(s)>>) \o ReplaceChar(Tail(s), c, r)

RECURSIVE LastSlash(_, _)
\* index of the last "/" of s at or before i, 0 when there is none
LastSlash(s, i) ==
    IF i = 0 THEN 0
    ELSE IF s[i] = "/" THEN i
    ELSE LastSlash(s, i - 1)

DotZip == <<".", "z", "i", "p">>
OuterZip == <<"_", "o", "u", "t", "e", "r", ".", "z", "i", "p">>
DotHtml == <<".", "h", "t", "m", "l">>
DotHtmlKey == <<".", "h", "t", "m", "l", ".", "k", "e", "y">>
ArchiveName == <<"a", "r", "c", "h", "i", "v", "e">>

\* Option<T>
Some(v) == [some |-> TRUE, v |-> v]
Nothing == [some |-> FALSE, v |-> <<>>]

\* max_size: Option<f64> without a value
NoCap == [some |-> FALSE, v |-> 0]

RECURSIVE PathFileNameDot(_, _)
\* Path::file_name() of a path ending in the component ".": Rust's components()
\* drops a trailing "." so the name is that of the path before it
PathFileNameDot(p, k) ==
    IF k = 0 THEN Nothing
    ELSE LET q == SubSeq(p, 1, k - 1)
             j == LastSlash(q, Len(q))
             last == SubSeq(q, j + 1, Len(q))
         IN  IF last = <<>> \/ last = <<".", ".">> THEN Nothing
             ELSE IF last = <<".">> THEN PathFileNameDot(q, j)
             ELSE Some(last)

\* Path::file_name(): the last component; None for "", ".." and "/"
PathFileName(p) ==
    LET k == LastSlash(p, Len(p))
        last == SubSeq(p, k + 1, Len(p))
    IN  IF last = <<>> \/ last = <<".", ".">> THEN Nothing
        ELSE IF last = <<".">> THEN PathFileNameDot(p, k)
        ELSE Some(last)

\* Path::parent(): the path without its last component; None for "" and "/"
PathParent(p) ==
    LET k == LastSlash(p, Len(p))
    IN  IF p = <<>> \/ p = <<"/">> THEN Nothing
        ELSE IF k = 0 THEN Some(<<>>)
        ELSE IF k = 1 THEN Some(<<"/">>)
        ELSE Some(SubSeq(p, 1, k - 1))

\* Path::join for a relative second path
PathJoin(a, b) ==
    IF a = <<>> THEN b
    ELSE IF b = <<>> THEN a
    ELSE IF a[Len(a)] = "/" THEN a \o b
    ELSE a \o <<"/">> \o b

IsPrefix(a, b) == Len(a) <= Len(b) /\ SubSeq(b, 1, Len(a)) = a

\* pathdiff::diff_paths(path, base) for a base that is a prefix of path by
\* components (a selected file lies under input_path and so under its parent)
diff_paths(path, base) ==
    IF base = <<>> THEN Some(path)
    ELSE IF path = base THEN Some(<<>>)
    ELSE IF base[Len(base)] = "/" /\ IsPrefix(base, path)
        THEN Some(SubSeq(path, Len(base) + 1, Len(path)))
    ELSE IF IsPrefix(base \o <<"/">>, path)
        THEN Some(SubSeq(path, Len(base) + 2, Len(path)))
    ELSE Nothing

RECURSIVE TrimDotSlash(_)
\* str::trim_start_matches("./")
TrimDotSlash(s) ==
    IF Len(s) >= 2 /\ s[1] = "." /\ s[2] = "/" THEN TrimDotSlash(SubSeq(s, 3, Len(s)))
    ELSE s

---------------------------------------------------------------------------
(* Patterns: utils.rs create_regex_sets and regex::RegexSet *)

\* |p| p.replace(".", "\\.").replace("*", ".*")
PatternToRegex(p) ==
    ReplaceChar(ReplaceChar(p, ".", <<"\\", ".">>), "*", <<".", "*">>)

RECURSIVE RegexAtoms(_)
\* The regex as a sequence of atoms: an escaped character or any other
\* character is a literal, "." is any character, and a following "*" makes
\* the atom repeat.  A "*" with nothing to repeat, a trailing "\" and an
\* unclosed "[" are syntax errors: the atom "bad".
RegexAtoms(re) ==
    IF re = <<>> THEN <<>>
    ELSE
      LET c == Head(re)
          esc == c = "\\"
          bad == (c = "*") \/ (c = "[") \/ (esc /\ Len(re) = 1)
          used == IF esc THEN 2 ELSE 1
          star == Len(re) > used /\ re[used + 1] = "*"
          atom == IF bad THEN [k |-> "bad", c |-> c, star |-> FALSE]
                  ELSE IF esc THEN [k |-> "lit", c |-> re[2], star |-> star]
                  ELSE IF c = "." THEN [k |-> "any", c |-> c, star |-> star]
                  ELSE [k |-> "lit", c |-> c, star |-> star]
          rest == IF bad THEN <<>>
                  ELSE SubSeq(re, used + (IF star THEN 1 ELSE 0) + 1, Len(re))
      IN  <<atom>> \o RegexAtoms(rest)

RegexValid(re) == \A i \in DOMAIN RegexAtoms(re) : RegexAtoms(re)[i].k # "bad"

AtomTakes(a, ch) == a.k = "any" \/ (a.k = "lit" /\ a.c = ch)

RECURSIVE MatchAt(_, _, _, _)
\* atoms[i..] match a prefix of s[j..]
MatchAt(atoms, i, s, j) ==
    IF i > Len(atoms) THEN TRUE
    ELSE IF atoms[i].star
        THEN MatchAt(atoms, i + 1, s, j)
             \/ (j <= Len(s) /\ AtomTakes(atoms[i], s[j]) /\ MatchAt(atoms, i, s, j + 1))
    ELSE j <= Len(s) /\ AtomTakes(atoms[i], s[j]) /\ MatchAt(atoms, i + 1, s, j + 1)

\* Regex::is_match: an unanchored search
RegexIsMatch(re, s) == \E j \in 1..(Len(s) + 1) : MatchAt(RegexAtoms(re), 1, s, j)

\* RegexSet::new(patterns).unwrap_or_else(|e| RegexSet::empty())
RegexSetNew(patterns) ==
    IF \A re \in patterns : RegexValid(re) THEN patterns ELSE {}

\* RegexSet::is_match
SetIsMatch(set, s) == \E re \in set : RegexIsMatch(re, s)

\* utils.rs create_regex_sets / main.rs create_regex_sets
create_regex_sets(include, exclude) ==
    [include_set |-> RegexSetNew({PatternToRegex(p) : p \in include}),
     exclude_set |-> RegexSetNew({PatternToRegex(p) : p \in exclude})]

---------------------------------------------------------------------------
(* The input tree.  tree.root is the input path as the caller wrote it,     *)
(* tree.exists tells whether it exists, and tree.entries lists the regular  *)
(* files under it in the order the directory walk yields them, each with    *)
(* its path relative to the root, its size in bytes, whether its metadata   *)
(* can be read and whether its content can be read.                         *)

FullPath(root, f) == PathJoin(root, f.rel)

RECURSIVE SumSizes(_)
SumSizes(fs) == IF fs = <<>> THEN 0 ELSE Head(fs).size + SumSizes(Tail(fs))

Range(s) == {s[i] : i \in DOMAIN s}

\* the entry of the tree that has the full path p
EntryOf(t, p) == CHOOSE f \in Range(t.entries) : FullPath(t.root, f) = p

---------------------------------------------------------------------------
(* File Selector: file.rs (convert generation) and main.rs *)

\* file.rs:29 / main.rs:997: `file_size > max` with file_size = len / 1_048_576.0.
\* The division by 2^20 is exact in f64, so for a cap of whole MB the test is
\* len > max * 1_048_576.
ExceedsCap_AtCap(size, max) == size >= max * BytesPerMB

ExceedsCap(size, max) == size > max * BytesPerMB

\* file.rs:17-35 and main.rs:985-1003 is_file_valid: "true", "false" or "err"
is_file_valid(path, f, include_set, exclude_set, max_size) ==
    IF ~SetIsMatch(include_set, path) \/ SetIsMatch(exclude_set, path) THEN "false"
    ELSE IF max_size.some
        THEN IF ~f.stat THEN "err"
             ELSE IF ExceedsCap(f.size, max_size.v) THEN "false"
             ELSE "true"
    ELSE "true"

\* file.rs:38-52 filter_entry, as used by the walk's filter on each entry
filter_entry(path, exclude_set) == ~SetIsMatch(exclude_set, path)

\* file.rs:84-164 FileCollector::collect_and_measure_files
FileCollector_collect(t, sets, max_size, measure_size) ==
    LET walked == SelectSeq(t.entries,
                      LAMBDA f : filter_entry(FullPath(t.root, f), sets.exclude_set))
        valid == SelectSeq(walked,
                      LAMBDA f : is_file_valid(FullPath(t.root, f), f, sets.include_set,
                                               sets.exclude_set, max_size) = "true")
        measured == SelectSeq(valid, LAMBDA f : f.stat)
        total == IF measure_size THEN SumSizes(measured) ELSE 0
        paths == [i \in DOMAIN valid |-> FullPath(t.root, valid[i])]
    IN  IF valid = <<>>
        THEN [ok |-> FALSE, err |-> "NoEligibleFiles", files |-> <<>>, total_size |-> 0]
        ELSE [ok |-> TRUE, err |-> None, files |-> paths, total_size |-> total]

\* file.rs:168-185 collect_files: the list only
file_collect_files(t, sets, max_size) == FileCollector_collect(t, sets, max_size, FALSE)

file_collect_and_measure_files_EmptyOk(t, sets, max_size) ==
    LET got == FileCollector_collect(t, sets, max_size, TRUE)
    IN  IF got.ok THEN got
        ELSE [ok |-> TRUE, err |-> None, files |-> <<>>, total_size |-> 0]

\* file.rs:188-205 collect_and_measure_files: the list and the total size
file_collect_and_measure_files(t, sets, max_size) ==
    FileCollector_collect(t, sets, max_size, TRUE)

\* main.rs:1006-1023 collect_files: the recursion pushes every valid file and
\* returns the first error of is_file_valid.  An entry of the tree is a path
\* that path.is_file() (:1013) has seen as a file; its stat field is the
\* outcome of the metadata read of is_file_valid (:996) that follows.
main_collect_files(t, sets, max_size) ==
    LET verdict(f) == is_file_valid(FullPath(t.root, f), f, sets.include_set,
                                    sets.exclude_set, max_size)
        valid == SelectSeq(t.entries, LAMBDA f : verdict(f) = "true")
        paths == [i \in DOMAIN valid |-> FullPath(t.root, valid[i])]
    IN  IF \E f \in Range(t.entries) : verdict(f) = "err"
        THEN [ok |-> FALSE, err |-> "IoFailure", files |-> <<>>, total_size |-> 0]
        ELSE [ok |-> TRUE, err |-> None, files |-> paths, total_size |-> 0]

\* main.rs:1026-1045 collect_and_measure_files: no file is an error, and the
\* total is measured by reading every selected file
main_collect_and_measure_files(t, sets, max_size) ==
    LET got == main_collect_files(t, sets, max_size)
        sel == [i \in DOMAIN got.files |-> EntryOf(t, got.files[i])]
    IN  IF ~got.ok THEN got
        ELSE IF got.files = <<>>
        THEN [ok |-> FALSE, err |-> "NoEligibleFiles", files |-> <<>>, total_size |-> 0]
        ELSE IF \E f \in Range(sel) : ~f.readable
        THEN [ok |-> FALSE, err |-> "IoFailure", files |-> <<>>, total_size |-> 0]
        ELSE [got EXCEPT !.total_size = SumSizes(sel)]

---------------------------------------------------------------------------
(* Archive Encoder.  Bytes are symbolic: Raw(p) is the content of the file  *)
(* with full path p; Zip(ms) is a ZIP archive with the members ms in order. *)
(* A member records its name, its content, the secret it is encrypted with  *)
(* (None when it is not encrypted), the AES mode and the compression method.*)

Raw(p) == [kind |-> "raw", src |-> p, members |-> <<>>]

Zip(ms) == [kind |-> "zip", src |-> <<>>, members |-> ms]

Member_Unencrypted(name, data, method, pwd, aes_mode) ==
    [name |-> name, data |-> data, method |-> method, enc |-> None, aes |-> None]

\* zip.start_file(name, options) followed by zip.write_all(data): options with
\* .with_aes_encryption(aes_mode, pwd) when a password is given
Member(name, data, method, pwd, aes_mode) ==
    [name |-> name, data |-> data, method |-> method, enc |-> pwd,
     aes |-> IF pwd = None THEN None ELSE aes_mode]

\* convert.rs:134-139, :317-322, main.rs:883-888, facade:91-96
AesModeOf(encryption_method) ==
    IF encryption_method = "aes128" THEN "Aes128"
    ELSE IF encryption_method = "aes192" THEN "Aes192"
    ELSE "Aes256"

\* the method main.rs derives from compression_level (main.rs:893-897, 1092-1096)
MethodOf(compression_level) ==
    IF compression_level = "stored" THEN "Stored" ELSE "Deflated"

\* zip.rs:123-130 / main.rs:654-661 create_zip_buffer: one unencrypted member
create_zip_buffer(file_name, data, method) ==
    Zip(<<Member(file_name, data, method, None, None)>>)

\* zip.rs:132-154 compress_file_content (always Stored) and
\* main.rs:752-782 (the method follows compression_level)
compress_file_content(r, data, file_name, compression_level, pwd, aes_mode) ==
    Zip(<<Member(file_name, data,
                 IF r = "main" THEN MethodOf(compression_level) ELSE "Stored",
                 pwd, aes_mode)>>)

\* zip.rs:156-205 create_zip (Stored) and main.rs:785-836 (Deflated)
create_zip(r, data, file_name, layer, pwd, aes_mode) ==
    LET method == IF r = "main" THEN "Deflated" ELSE "Stored"
    IN  IF layer = "double"
        THEN Zip(<<Member(file_name \o OuterZip, data, method, pwd, aes_mode)>>)
        ELSE IF layer = "single"
        THEN Zip(<<Member(file_name \o DotZip, data, method, pwd, aes_mode)>>)
        ELSE data

\* zip.rs:51-62 and main.rs:1058-1059: the member name of a file, None when
\* diff_paths gives none (the file is then left out)
MemberName(file_path, input_path) ==
    LET parent == PathParent(input_path)
        base == IF parent.some THEN parent.v ELSE input_path
        d == diff_paths(file_path, base)
    IN  IF d.some THEN Some(TrimDotSlash(d.v)) ELSE Nothing

create_inner_zip_SkipUnreadable(r, t, input_path, fs, method, pwd, aes_mode) ==
    LET named == SelectSeq(fs, LAMBDA p : MemberName(p, input_path).some
                                          /\ EntryOf(t, p).readable)
    IN  [ok |-> TRUE, err |-> None,
         bytes |-> Zip([i \in DOMAIN named |->
                         Member(MemberName(named[i], input_path).v, Raw(named[i]),
                                method, pwd, aes_mode)])]

create_inner_zip_Reversed(r, t, input_path, fs, method, pwd, aes_mode) ==
    LET named == SelectSeq(fs, LAMBDA p : MemberName(p, input_path).some)
        n == Len(named)
    IN  [ok |-> TRUE, err |-> None,
         bytes |-> Zip([i \in DOMAIN named |->
                         Member(MemberName(named[n + 1 - i], input_path).v,
                                Raw(named[n + 1 - i]), method, pwd, aes_mode)])]

\* zip.rs:45-106 ZipCompressor::compress_files / zip.rs:110-120 create_inner_zip
\* and main.rs:1048-1074 create_inner_zip: every listed file is read and
\* written as one member; the first read failure ends the call with an error
create_inner_zip(r, t, input_path, fs, method, pwd, aes_mode) ==
    LET named == SelectSeq(fs, LAMBDA p : MemberName(p, input_path).some)
        member(p) ==
            Member(MemberName(p, input_path).v, Raw(p),
                   IF pwd # None
                   THEN (IF r = "main" THEN "Deflated" ELSE "Stored")
                   ELSE method,
                   pwd, aes_mode)
    IN  IF \E p \in Range(named) : ~EntryOf(t, p).readable
        THEN [ok |-> FALSE, err |-> "IoFailure", bytes |-> Raw(<<>>)]
        ELSE [ok |-> TRUE, err |-> None,
              bytes |-> Zip([i \in DOMAIN named |-> member(named[i])])]

\* convert.rs:72-118 compress_single_file and the same steps inlined in
\* main.rs:890-932 convert_file_to_html
compress_single_file(r, data, file_name, compress, compression_level, pwd, aes_mode, layer) ==
    IF layer = "single"
    THEN IF pwd # None
         THEN Zip(<<Member(file_name, data,
                           IF r = "main" THEN "Deflated" ELSE "Stored", pwd, aes_mode)>>)
         ELSE IF compress
         THEN create_zip_buffer(file_name, data,
                                IF r = "main" THEN MethodOf(compression_level) ELSE "Stored")
         ELSE data
    ELSE LET inner_data ==
                 IF compress /\ layer # "none"
                 THEN compress_file_content(r, data, file_name, compression_level, pwd, aes_mode)
                 ELSE data
         IN  create_zip(r, inner_data, file_name, layer, pwd, aes_mode)

\* utils.rs:133-144 get_file_name: (file_name, download_zip_name)
get_file_name(path, layer) ==
    LET fname == PathFileName(path)
        file_name == IF fname.some THEN fname.v ELSE ArchiveName
    IN  [file_name |-> file_name,
         download_zip_name |->
             IF layer = "none" THEN file_name
             ELSE IF layer = "single" THEN file_name \o DotZip
             ELSE file_name \o OuterZip]

\* main.rs:869-876 convert_file_to_html: the per-file download name
main_download_name(file_name, layer) ==
    IF layer = "none" THEN file_name
    ELSE IF layer = "single" THEN file_name \o DotZip
    ELSE file_name \o OuterZip

\* main.rs:1157 process_compressed: the whole-tree download name
main_compressed_download_name(file_name, layer) == file_name \o OuterZip

---------------------------------------------------------------------------
(* Services of the facade generation whose source files (service/file.rs,   *)
(* service/zip.rs) are not part of the sources: modelled from the spec.     *)

\* spec 4.1 File Selector: the input root must exist (NotFound otherwise);
\* the eligible files; NoEligibleFiles when none is eligible in whole-tree
\* mode, an empty list in per-file mode.  The selector of the spec knows the
\* mode; FileCollectInput (models/file.rs:4-10), which the facade hands to the
\* service, has no field for it.
FileService_collect_files(t, include, exclude, max_size, whole_tree) ==
    LET sets == create_regex_sets(include, exclude)
        elig(f) == /\ SetIsMatch(sets.include_set, FullPath(t.root, f))
                   /\ ~SetIsMatch(sets.exclude_set, FullPath(t.root, f))
                   /\ (max_size.some => f.stat /\ f.size <= max_size.v * BytesPerMB)
        valid == SelectSeq(t.entries, elig)
        paths == [i \in DOMAIN valid |-> FullPath(t.root, valid[i])]
    IN  IF ~t.exists
        THEN [ok |-> FALSE, err |-> "NotFound", files |-> <<>>, total_size |-> 0]
        ELSE IF valid = <<>> /\ whole_tree
        THEN [ok |-> FALSE, err |-> "NoEligibleFiles", files |-> <<>>, total_size |-> 0]
        ELSE [ok |-> TRUE, err |-> None, files |-> paths, total_size |-> SumSizes(valid)]

\* spec 4.2 Archive Encoder: one member per entry in the given order, named by
\* its path within the archive, encrypted when a secret is present; a read
\* failure aborts the archive
ZipService_compress_files(t, fs, input_path, method, pwd, aes_mode) ==
    LET name(p) == IF p = input_path \/ ~diff_paths(p, input_path).some
                   THEN get_file_name(p, "none").file_name
                   ELSE diff_paths(p, input_path).v
    IN  IF \E p \in Range(fs) : ~EntryOf(t, p).readable
        THEN [ok |-> FALSE, err |-> "IoFailure", bytes |-> Raw(<<>>)]
        ELSE [ok |-> TRUE, err |-> None,
              bytes |-> Zip([i \in DOMAIN fs |->
                              Member(name(fs[i]), Raw(fs[i]), method, pwd, aes_mode)])]

---------------------------------------------------------------------------
(* Entry checks *)

InvalidChars == {"/", "\\", ":", "?", "\"", "<", ">", "|"}

\* config.rs:80-83 / main.rs:385-388 is_valid_pattern
is_valid_pattern(pattern) ==
    pattern # <<>> /\ \A i \in DOMAIN pattern : pattern[i] \notin InvalidChars

\* config.rs:85-99 / main.rs:391-405 validate_file_patterns
validate_file_patterns(include, exclude) ==
    \A pattern \in include \cup exclude : is_valid_pattern(pattern)

\* config.rs:56-66, cli.rs:266-276, main.rs:451-461 validate_cli_args and
\* action/cli.rs:113-122 CliConfigAdapter::get_config: None, or the error
validate_cli_args(c, t) ==
    IF ~t.exists THEN "NotFound"
    ELSE IF ~validate_file_patterns(c.include, c.exclude) THEN "InvalidInput"
    ELSE IF c.is_compressed /\ c.layer = "none" THEN "InvalidInput"
    ELSE None

validate_input_path_Unchecked(t) == None

\* config.rs:68-78 / main.rs:602-609 validate_input_path
validate_input_path(t) == IF ~t.exists THEN "NotFound" ELSE None

prompt_manual_password_Unconfirmed(typed) == Some(typed[1])

\* cli.rs:278-291, interactive.rs:185-198, main.rs:464-477 prompt_manual_password
\* on the two entries the user types
prompt_manual_password(typed) ==
    IF typed[1] # typed[2] THEN Nothing ELSE Some(typed[1])

\* What runs before the pipeline proper on each entry path: the error it
\* returns, or None.
\*   cli (main.rs:480-499, cli.rs:305-324): validate_cli_args, then the manual
\*     password prompt;
\*   interactive and api (main.rs:560, convert.rs:31): validate_input_path;
\*   facade (conversion_facade.rs:41): the adapter's get_config, which
\*     validates only for the CLI adapter (action/cli.rs:93-104).  The api
\*     entry of the facade is execute_conversion behind the
\*     DefaultConfigAdapter, which is also what process_cli_mode builds when no
\*     option is given (action/cli.rs:26-41).
EntryCheck(r, e, c, t) ==
    IF e = "cli"
    THEN IF validate_cli_args(c, t) # None THEN validate_cli_args(c, t)
         ELSE IF c.password_mode = "Manual" /\ ~prompt_manual_password(c.typed).some
         THEN "PasswordMismatch"
         ELSE None
    ELSE IF r = "facade" THEN None
    ELSE validate_input_path(t)

\* the preset password the entry path hands to the pipeline (cli.rs:320-324,
\* main.rs:495-499); execute_conversion passes None (convert.rs:48, :65) and
\* so does the facade (conversion_facade.rs:90, :114)
PresetOf(r, e, c) ==
    IF e = "cli" /\ r # "facade" /\ c.password_mode = "Manual"
    THEN prompt_manual_password(c.typed)
    ELSE Nothing

---------------------------------------------------------------------------
(* Password Policy *)

\* utils.rs:163-201 / main.rs:664-689 generate_password.  rnd is what
\* generate_random_password returns, now is the formatted local time, typed
\* the two entries of the confirmation prompt.
generate_password_NoConfirm(password_mode, preset, typed, rnd, now) ==
    IF password_mode = "Random" THEN [ok |-> TRUE, some |-> TRUE, pwd |-> rnd]
    ELSE IF password_mode = "Manual"
    THEN [ok |-> TRUE, some |-> TRUE, pwd |-> typed[1]]
    ELSE IF password_mode = "Timestamp" THEN [ok |-> TRUE, some |-> TRUE, pwd |-> now]
    ELSE [ok |-> TRUE, some |-> FALSE, pwd |-> None]

\* `some` tells Ok(Some(pwd)) from Ok(None) and Err.
generate_password(password_mode, preset, typed, rnd, now) ==
    IF password_mode = "Random" THEN [ok |-> TRUE, some |-> TRUE, pwd |-> rnd]
    ELSE IF password_mode = "Manual"
    THEN IF preset.some THEN [ok |-> TRUE, some |-> TRUE, pwd |-> preset.v]
         ELSE IF typed[1] # typed[2] THEN [ok |-> FALSE, some |-> FALSE, pwd |-> None]
         ELSE [ok |-> TRUE, some |-> TRUE, pwd |-> typed[1]]
    ELSE IF password_mode = "Timestamp" THEN [ok |-> TRUE, some |-> TRUE, pwd |-> now]
    ELSE [ok |-> TRUE, some |-> FALSE, pwd |-> None]

\* the steps one call of generate_password adds to the log: the call, and the
\* prompt it shows in mode Manual when no preset is given (utils.rs:170-181)
PolicySteps(password_mode, preset) ==
    IF password_mode = "Manual" /\ ~preset.some THEN <<"secret", "prompt">>
    ELSE <<"secret">>

\* the run has not called the text-level password policy
NoEnv == [mode |-> "None", preset |-> Nothing, typed |-> <<<<>>, <<>>>>,
          stream |-> <<>>, clock |-> [year |-> 1970, month |-> 1, day |-> 1,
                                      hour |-> 0, minute |-> 0, second |-> 0]]

NoSecret == [ok |-> FALSE, some |-> FALSE, v |-> <<>>]

\* rand::distr::Alphanumeric: the characters a sample is mapped to
AlphanumericCharset ==
    <<"A", "B", "C", "D", "E", "F", "G", "H", "I", "J", "K", "L", "M",
      "N", "O", "P", "Q", "R", "S", "T", "U", "V", "W", "X", "Y", "Z",
      "a", "b", "c", "d", "e", "f", "g", "h", "i", "j", "k", "l", "m",
      "n", "o", "p", "q", "r", "s", "t", "u", "v", "w", "x", "y", "z",
      "0", "1", "2", "3", "4", "5", "6", "7", "8", "9">>

\* utils.rs:166 / main.rs:666: generate_random_password(16)
PasswordLength == 16

\* utils.rs:155-161 / main.rs:636-642 generate_random_password: the first
\* `length` samples of the generator, each mapped to its character.  stream
\* holds the samples as indices into the character set.
generate_random_password(length, stream) ==
    [i \in 1..length |-> AlphanumericCharset[stream[i] + 1]]

DigitChars == <<"0", "1", "2", "3", "4", "5", "6", "7", "8", "9">>

RECURSIVE Decimal(_)
\* the decimal digits of n
Decimal(n) ==
    IF n < 10 THEN <<DigitChars[n + 1]>>
    ELSE Decimal(n \div 10) \o <<DigitChars[(n % 10) + 1]>>

RECURSIVE ZeroPad(_, _)
\* t padded with zeros on the left to at least w characters
ZeroPad(t, w) == IF Len(t) >= w THEN t ELSE ZeroPad(<<"0">> \o t, w)

FormatLocal_Unpadded(clock) ==
    Decimal(clock.year) \o Decimal(clock.month) \o Decimal(clock.day)
    \o Decimal(clock.hour) \o Decimal(clock.minute) \o Decimal(clock.second)

\* utils.rs:192 / main.rs:686 Local::now().format("%Y%m%d%H%M%S"): %Y is the
\* year padded to four digits, with a sign in front beyond 9999; the other
\* fields are padded to two digits
FormatLocal(clock) ==
    (IF clock.year > 9999 THEN <<"+">> ELSE <<>>)
    \o ZeroPad(Decimal(clock.year), 4)
    \o ZeroPad(Decimal(clock.month), 2)
    \o ZeroPad(Decimal(clock.day), 2)
    \o ZeroPad(Decimal(clock.hour), 2)
    \o ZeroPad(Decimal(clock.minute), 2)
    \o ZeroPad(Decimal(clock.second), 2)

---------------------------------------------------------------------------
(* HTML renderer hand-off and the output directory *)

\* fs::write / File::create: a file of the output directory is (over)written
WriteFile(out, name, content) ==
    {e \in out : e.name # name} \cup {[name |-> name, content |-> content]}

handle_password_display_AlwaysStored(out, pwd, display_password, file_name) ==
    IF pwd # None
    THEN WriteFile(out, file_name \o DotHtmlKey, [kind |-> "key", pwd |-> pwd, unit |-> 0])
    ELSE out

\* service/html.rs:110-131, utils/html.rs:38-59, main.rs:703-720
\* handle_password_display: the key file is written when a secret is present
\* and not displayed
handle_password_display(out, pwd, display_password, file_name) ==
    IF pwd # None /\ ~display_password
    THEN WriteFile(out, file_name \o DotHtmlKey, [kind |-> "key", pwd |-> pwd, unit |-> 0])
    ELSE out

\* generate_html_content + write_html_file (utils/html.rs:9-26, :80-87,
\* service/html.rs:79-96, :154-161, main.rs:723-740, :852-856)
write_html_file(out, file_name, unit_no) ==
    WriteFile(out, file_name \o DotHtml, [kind |-> "html", pwd |-> None, unit |-> unit_no])

\* one conversion unit as the HTML renderer receives it
Unit(path, file_name, download_zip_name, bytes, layer, pwd, display_password, size) ==
    [path |-> path, file_name |-> file_name, download_zip_name |-> download_zip_name,
     bytes |-> bytes, layer |-> layer, password |-> pwd,
     display_password |-> display_password, size |-> size]

\* the (file_name, download_zip_name) of a unit in each generation:
\* convert.rs:130, :251 and service/html.rs:30 call get_file_name;
\* main.rs:869-876 (per file) and main.rs:1130, :1157 (whole tree) inline it
NamesOf(r, path, layer, whole_tree) ==
    IF r = "main"
    THEN LET file_name == get_file_name(path, layer).file_name
         IN  [file_name |-> file_name,
              download_zip_name |->
                  IF whole_tree THEN main_compressed_download_name(file_name, layer)
                  ELSE main_download_name(file_name, layer)]
    ELSE get_file_name(path, layer)

---------------------------------------------------------------------------
(* Inputs *)

Star == <<"*">>
DotT == <<".", "t">>
A_T == <<"a", ".", "t">>
B_ == <<"b">>
D_A_T == <<"d", "/", "a", ".", "t">>
RootR == <<"r">>

RelPaths == {A_T, B_, D_A_T}

RECURSIVE Listings(_, _)
\* the directory listings of at most n files drawn from recs, no path twice
Listings(recs, n) ==
    IF n = 0 THEN {<<>>}
    ELSE LET shorter == Listings(recs, n - 1)
         IN  shorter \cup
             {Append(l, f) : l \in {x \in shorter : Len(x) = n - 1},
                             f \in recs}

Distinct(l) == \A i, j \in DOMAIN l : i # j => l[i].rel # l[j].rel

Trees(sizes, stats, reads) ==
    {[root |-> RootR, exists |-> TRUE, entries |-> l] :
        l \in {x \in Listings([rel : RelPaths, size : sizes, stat : stats,
                               readable : reads], MaxFiles) : Distinct(x)}}

Runs == { <<"main", "cli">>, <<"main", "interactive">>,
          <<"convert", "cli">>, <<"convert", "interactive">>, <<"convert", "api">>,
          <<"facade", "cli">>, <<"facade", "interactive">>, <<"facade", "api">> }

Layers == {"none", "single", "double"}
PasswordModes == {"Random", "Manual", "Timestamp", "None"}

Configs(includes, excludes, caps, modes, layers, pmodes) ==
    [is_compressed : modes, compress : BOOLEAN, include : includes, exclude : excludes,
     password_mode : pmodes, display_password : BOOLEAN,
     compression_level : {"deflated"}, layer : layers,
     encryption_method : {"aes256"}, no_progress : {FALSE}, max_size : caps,
     typed : {<<"M1", "M1">>, <<"M1", "M2">>}]

\* action/interactive.rs:36-49: the ConversionInput of the interactive facade
FacadeInteractiveInput ==
    [is_compressed |-> TRUE, compress |-> TRUE, include |-> {Star}, exclude |-> {},
     password_mode |-> "Random", display_password |-> TRUE,
     compression_level |-> "deflated", layer |-> "single",
     encryption_method |-> "aes256", no_progress |-> FALSE, max_size |-> NoCap,
     typed |-> <<"M1", "M1">>]

\* The configurations an entry path can produce.
\*   interactive (interactive.rs:58-80, :82-118, :160-179; main.rs:278-300,
\*   :303-339, :408-429): "none" is not offered in whole-tree mode, "none"
\*   forces PasswordMode::None, no password is never displayed, compress is
\*   asked in per-file mode only, and there is no size cap;
\*   cli and api: every combination of the fields.
EntryAllows(r, e, c) ==
    /\ (c.password_mode # "Manual" => c.typed = <<"M1", "M1">>)
    /\ IF e = "interactive" /\ r = "facade" THEN c = FacadeInteractiveInput
       ELSE IF e = "interactive"
       THEN /\ c.is_compressed => c.layer # "none" /\ c.compress
            /\ c.layer = "none" => c.password_mode = "None"
            /\ c.password_mode = "None" => ~c.display_password
            /\ ~c.max_size.some
       ELSE TRUE

\* no adapter has been asked yet
Unresolved == [some |-> FALSE, v |-> FacadeInteractiveInput]

\* service/config_service.rs:33-48 DefaultConfigAdapter::get_config: the
\* fixed configuration (AppConfig has no typed text and no compression level;
\* these fields keep the input's values)
DefaultConfigAdapter_get_config(c) ==
    [c EXCEPT !.is_compressed = TRUE, !.compress = TRUE, !.include = {Star},
              !.exclude = {}, !.password_mode = "Random", !.display_password = TRUE,
              !.layer = "single", !.encryption_method = "aes256",
              !.no_progress = FALSE, !.max_size = NoCap]

\* action/cli.rs:124-137 CliConfigAdapter::get_config: the flags, with the
\* same defaults as the ConversionInput of process_cli_mode (:52-73)
CliConfigAdapter_get_config(c) == c

\* action/interactive.rs:238-264 InteractiveConfigAdapter::get_config: what
\* the user answers to the prompts
InteractiveChoices ==
    {c \in Configs({{Star}, {DotT}}, {{}}, {NoCap}, BOOLEAN, Layers, {"Random", "None"}) :
        EntryAllows("convert", "interactive", c)}

\* action/cli.rs:26-36 is_default_config: the ConversionInput (:52-73) of a
\* command line without option flags
IsCliNoFlagsInput(c) ==
    /\ ~c.is_compressed /\ c.compress /\ c.include = {Star} /\ c.exclude = {}
    /\ c.password_mode = "Random" /\ ~c.display_password /\ c.layer = "double"
    /\ c.encryption_method = "aes256" /\ ~c.no_progress /\ ~c.max_size.some

\* the adapters the facade can be built with on an entry path
\* (action/cli.rs:38-43, action/interactive.rs:22-27); a direct call of the
\* facade stands behind the default adapter
Adapters(e, c) ==
    IF e = "cli" THEN (IF IsCliNoFlagsInput(c) THEN {"default", "cli"} ELSE {"cli"})
    ELSE IF e = "interactive" THEN {"default", "interactive"}
    ELSE {"default"}

\* config_service.get_config() (conversion_facade.rs:41): the configurations
\* the adapter a can return
get_config(a, c) ==
    IF a = "default" THEN {DefaultConfigAdapter_get_config(c)}
    ELSE IF a = "cli" THEN {CliConfigAdapter_get_config(c)}
    ELSE InteractiveChoices

---------------------------------------------------------------------------
(* The run *)

whole_tree == cfg.is_compressed

Done(r) == /\ pc' = "done" /\ result' = r

\* the state before main / process_args is entered
InitWith(trees, configs) ==
    /\ \E run \in Runs : rev = run[1] /\ entry = run[2]
    /\ tree \in trees
    /\ cfg \in configs
    /\ EntryAllows(rev, entry, cfg)
    /\ pc = "start"
    /\ files = <<>>
    /\ total_size = 0
    /\ password = None
    /\ next_file = 1
    /\ buffer = Raw(<<>>)
    /\ units = <<>>
    /\ outdir = {}
    /\ log = <<>>
    /\ result = "running"
    /\ env = NoEnv
    /\ secret = NoSecret
    /\ resolved = Unresolved

\* process_cli_mode / process_interactive_mode / execute_conversion up to
\* the call of process_individual or process_compressed
\* (cli.rs:305-324, interactive.rs:9-36, convert.rs:31-32, main.rs:480-499,
\*  :560-561, conversion_facade.rs:41-51)
Validate ==
    /\ pc = "start"
    /\ log' = IF entry = "cli" /\ cfg.password_mode = "Manual"
                 /\ validate_cli_args(cfg, tree) = None
              THEN <<"validate", "prompt">>
              ELSE <<"validate">>
    /\ \E a \in (IF rev = "facade" THEN Adapters(entry, cfg) ELSE {"cli"}) :
         LET check == IF rev = "facade" /\ a # "cli" THEN None
                      ELSE EntryCheck(rev, entry, cfg, tree)
         IN  IF check # None
             THEN Done(check) /\ resolved' = resolved
             ELSE /\ pc' = IF rev = "facade" THEN "collect" ELSE "mkdir"
                  /\ result' = result
                  /\ IF rev = "facade"
                     THEN \E r \in get_config(a, cfg) : resolved' = Some(r)
                     ELSE resolved' = resolved
    /\ UNCHANGED <<env, secret, rev, entry, cfg, tree, files, total_size, password, next_file,
                   buffer, units, outdir>>

\* fs::create_dir_all(output_dir) (convert.rs:196, :302, main.rs:1091, :1186,
\* conversion_facade.rs:85, :113)
MkDir ==
    /\ pc = "mkdir"
    /\ log' = Append(log, "mkdir")
    /\ pc' = IF rev = "facade" THEN "secret" ELSE "collect"
    /\ UNCHANGED <<resolved, env, secret, rev, entry, cfg, tree, files, total_size, password, next_file,
                   buffer, units, outdir, result>>

\* the selection each generation runs in each mode
SelectionOf(t) ==
    LET sets == create_regex_sets(cfg.include, cfg.exclude)
    IN  IF rev = "main"
        THEN IF whole_tree THEN main_collect_and_measure_files(t, sets, cfg.max_size)
             ELSE main_collect_files(t, sets, cfg.max_size)
        ELSE IF rev = "convert"
        THEN IF whole_tree THEN file_collect_and_measure_files(t, sets, cfg.max_size)
             ELSE file_collect_files(t, sets, cfg.max_size)
        ELSE FileService_collect_files(t, cfg.include, cfg.exclude, cfg.max_size,
                                       whole_tree)

\* the selection on the run's input path
Selection == SelectionOf(tree)

\* convert.rs:197-205 and :306-307, main.rs:1098, :1187-1195,
\* conversion_facade.rs:53-66: the selection, its `?`, and the return on an
\* empty list
Collect ==
    /\ pc = "collect"
    /\ log' = Append(log, "select")
    /\ IF ~Selection.ok
       THEN /\ Done(Selection.err)
            /\ UNCHANGED <<files, total_size>>
       ELSE /\ files' = Selection.files
            /\ total_size' = Selection.total_size
            /\ IF Selection.files = <<>> /\ (rev = "facade" \/ ~whole_tree)
               THEN Done("ok")
               ELSE /\ pc' = IF rev = "facade" THEN "mkdir" ELSE "secret"
                    /\ result' = result
    /\ UNCHANGED <<resolved, env, secret, rev, entry, cfg, tree, password, next_file, buffer, units, outdir>>

RandomSecrets == {"R1"}
Timestamps == {"T1"}

\* convert.rs:207, :310, main.rs:1102, :1197, conversion_facade.rs:90, :114
ResolveSecret ==
    /\ pc = "secret"
    /\ log' = log \o PolicySteps(cfg.password_mode, PresetOf(rev, entry, cfg))
    /\ \E rnd \in RandomSecrets, now \in Timestamps :
         LET got == generate_password(cfg.password_mode, PresetOf(rev, entry, cfg),
                                      cfg.typed, rnd, now)
         IN  IF ~got.ok
             THEN Done("PasswordMismatch") /\ password' = password
             ELSE /\ password' = got.pwd
                  /\ pc' = IF whole_tree THEN "encode" ELSE "convert"
                  /\ result' = result
    /\ UNCHANGED <<resolved, env, secret, rev, entry, cfg, tree, files, total_size, next_file, buffer,
                   units, outdir>>

aes_mode == AesModeOf(cfg.encryption_method)

\* the steps one HTML hand-off adds to the log: the key file, then the HTML
HandOffSteps(pwd) ==
    IF pwd # None /\ ~cfg.display_password THEN <<"key", "html">> ELSE <<"html">>

\* handle_password_display, generate_html_content and write_html_file as every
\* generation calls them (convert.rs:157-177, :262-284, main.rs:937-969,
\* :1136-1166, service/html.rs:38-61)
HandOff(out, u) ==
    write_html_file(handle_password_display(out, u.password, u.display_password,
                                            u.file_name),
                    u.file_name, Len(units) + 1)

\* convert.rs:312-326, main.rs:1092-1112, conversion_facade.rs:86-108: the
\* inner archive of the whole tree
InnerArchive ==
    IF rev = "facade"
    THEN ZipService_compress_files(tree, files, tree.root, "Deflated", password, aes_mode)
    ELSE create_inner_zip(rev, tree, tree.root, files,
                          IF rev = "main" THEN MethodOf(cfg.compression_level)
                          ELSE "Stored",
                          password, aes_mode)

EncodeTree ==
    /\ pc = "encode"
    /\ log' = Append(log, "encode")
    /\ IF ~InnerArchive.ok
       THEN Done(InnerArchive.err) /\ buffer' = buffer
       ELSE /\ buffer' = InnerArchive.bytes
            /\ pc' = "finalize"
            /\ result' = result
    /\ UNCHANGED <<resolved, env, secret, rev, entry, cfg, tree, files, total_size, password, next_file,
                   units, outdir>>

\* convert.rs:241-286 finalize_compression, main.rs:1124-1167,
\* conversion_facade.rs:160-179
TreeUnit ==
    LET names == NamesOf(rev, tree.root, cfg.layer, TRUE)
        final_zip_buffer ==
            IF rev # "facade" /\ cfg.layer = "double"
            THEN create_zip(rev, buffer, names.file_name, cfg.layer, password, aes_mode)
            ELSE buffer
    IN  Unit(tree.root, names.file_name, names.download_zip_name, final_zip_buffer,
             cfg.layer, password, cfg.display_password, total_size)

Finalize ==
    /\ pc = "finalize"
    /\ units' = Append(units, TreeUnit)
    /\ outdir' = HandOff(outdir, TreeUnit)
    /\ log' = log \o HandOffSteps(password)
    /\ Done("ok")
    /\ UNCHANGED <<resolved, env, secret, rev, entry, cfg, tree, files, total_size, password, next_file,
                   buffer>>

\* the archive bytes of one file in per-file mode: convert.rs:142-150 and
\* main.rs:890-932 (compress_single_file); conversion_facade.rs:137-158
FileBytes(p) ==
    IF rev = "facade"
    THEN ZipService_compress_files(tree, <<p>>, p, "Deflated", password, aes_mode).bytes
    ELSE compress_single_file(rev, Raw(p), get_file_name(p, cfg.layer).file_name,
                              cfg.compress, cfg.compression_level, password, aes_mode,
                              cfg.layer)

\* convert.rs:120-179 / main.rs:859-971 convert_file_to_html and
\* conversion_facade.rs:120-131: the unit of one file
FileUnit(p) ==
    LET names == NamesOf(rev, p, cfg.layer, FALSE)
    IN  Unit(p, names.file_name, names.download_zip_name, FileBytes(p), cfg.layer,
             password, cfg.display_password,
             IF rev = "facade" THEN total_size ELSE EntryOf(tree, p).size)

\* one iteration of the loop of process_individual (convert.rs:216-233,
\* main.rs:1203-1219, conversion_facade.rs:120-132): a file that cannot be read
\* is logged and skipped, or ends the run in the facade
ConvertFile ==
    /\ pc = "convert"
    /\ next_file <= Len(files)
    /\ LET p == files[next_file]
       IN  IF ~EntryOf(tree, p).readable
           THEN /\ UNCHANGED <<units, outdir, buffer>>
                /\ log' = Append(log, "read_failed")
                /\ IF rev = "facade"
                   THEN Done("IoFailure") /\ next_file' = next_file
                   ELSE /\ next_file' = next_file + 1
                        /\ UNCHANGED <<pc, result>>
           ELSE /\ buffer' = FileBytes(p)
                /\ units' = Append(units, FileUnit(p))
                /\ outdir' = HandOff(outdir, FileUnit(p))
                /\ log' = log \o <<"encode">> \o HandOffSteps(password)
                /\ next_file' = next_file + 1
                /\ UNCHANGED <<pc, result>>
    /\ UNCHANGED <<resolved, env, secret, rev, entry, cfg, tree, files, total_size, password>>

\* the loop is over: Ok(()) (convert.rs:238, main.rs:1223,
\* conversion_facade.rs:134)
FinishBatch ==
    /\ pc = "convert"
    /\ next_file > Len(files)
    /\ Done("ok")
    /\ UNCHANGED <<resolved, env, secret, rev, entry, cfg, tree, files, total_size, password, next_file,
                   buffer, units, outdir, log>>

Next ==
    \/ Validate
    \/ MkDir
    \/ Collect
    \/ ResolveSecret
    \/ EncodeTree
    \/ Finalize
    \/ ConvertFile
    \/ FinishBatch

\* the runs of every generation on every entry path, over trees whose files
\* may be unreadable
Init ==
    InitWith(Trees({1}, {TRUE}, BOOLEAN),
             Configs({{Star}, {DotT}}, {{}}, {NoCap}, BOOLEAN, Layers, PasswordModes))

Spec == Init /\ [][Next]_vars

\* the runs that exercise the selection rule: patterns, sizes around the cap
\* and files whose metadata cannot be read
InitSelect ==
    InitWith(Trees({BytesPerMB, BytesPerMB + 1}, BOOLEAN, {TRUE}),
             Configs({{Star}, {DotT}, {B_, <<"[">>}},
                     {{}, {<<"a">>}, {<<"d", "/">>}, {<<"[">>}},
                     {NoCap, Some(1)}, BOOLEAN, {"single"}, {"None"}))
    /\ cfg.compress /\ ~cfg.display_password

SpecSelect == InitSelect /\ [][Next]_vars

\* the input paths a caller can write: a directory name, the current
\* directory, the parent directory and the filesystem root
Roots == {RootR, <<".">>, <<".", ".">>, <<"/">>}

TreesAt(roots, sizes, stats, reads) ==
    {[t EXCEPT !.root = r] : t \in Trees(sizes, stats, reads), r \in roots}

\* the runs that exercise the naming of archive members: every kind of input
\* path, every file readable, every file selected
InitNames ==
    InitWith(TreesAt(Roots, {1}, {TRUE}, {TRUE}),
             Configs({{Star}}, {{}}, {NoCap}, BOOLEAN, Layers, {"None", "Random"}))

SpecNames == InitNames /\ [][Next]_vars

\* a second directory name, whose text an unanchored pattern can meet
RootA == <<"a">>

\* the runs on the same trees under two different input paths
InitMoved ==
    InitWith(TreesAt({RootR, RootA}, {1}, {TRUE}, {TRUE}),
             Configs({{Star}, {B_}}, {{}, {<<"a">>}}, {NoCap}, BOOLEAN, {"single"},
                     {"None"}))
    /\ cfg.compress /\ ~cfg.display_password

SpecMoved == InitMoved /\ [][Next]_vars

\* an input path that does not exist: no file is under it
MissingTree == [root |-> RootR, exists |-> FALSE, entries |-> <<>>]

\* the runs on an input path that exists or not.  The interactive prompt
\* accepts an existing path only (interactive.rs:38-46); the path can be gone
\* when the run starts.
InitRoot ==
    InitWith(Trees({1}, {TRUE}, {TRUE}) \cup {MissingTree},
             Configs({{Star}}, {{}}, {NoCap}, BOOLEAN, {"single"}, {"Random", "Manual"}))

SpecRoot == InitRoot /\ [][Next]_vars

\* --compression-level (main.rs:61, cli.rs:34): "stored" or "deflated"
CompressionLevels == {"stored", "deflated"}

\* the runs that exercise the compression method: both levels, with and
\* without a secret
InitMethod ==
    InitWith(Trees({1}, {TRUE}, {TRUE}),
             {[c EXCEPT !.compression_level = l] :
                 c \in Configs({{Star}}, {{}}, {NoCap}, BOOLEAN, {"single", "double"},
                               {"None", "Random"}),
                 l \in CompressionLevels})

SpecMethod == InitMethod /\ [][Next]_vars

\* --include "*.t" (main.rs:39-41: the files of the given extensions)
StarDotT == <<"*", ".", "t">>

\* a file with the extension, a file that has it in the middle of its name
\* and a file in a directory whose name has it
ExtPaths == { <<"a", ".", "t">>, <<"a", ".", "t", ".", "b">>,
              <<"d", ".", "t", "/", "b">> }

ExtTrees ==
    {[root |-> RootR, exists |-> TRUE, entries |-> l] :
        l \in {x \in Listings([rel : ExtPaths, size : {1}, stat : {TRUE},
                               readable : {TRUE}], MaxFiles) : Distinct(x)}}

\* the runs that select by extension
InitExt ==
    InitWith(ExtTrees,
             Configs({{StarDotT}}, {{}}, {NoCap}, BOOLEAN, {"single"}, {"None", "Random"}))

SpecExt == InitExt /\ [][Next]_vars

---------------------------------------------------------------------------
(* Progress reporting of the convert generation: the selection and the     *)
(* inner archive computed together with what the ProgressManager shows.    *)

\* file.rs:133, :142 and zip.rs:91, :96: a report every so many files
CollectReportEvery == 1000
CompressReportEvery == 5000

\* utils.rs:46-59, :101-103 create_progress_bar: nothing shown yet
create_progress_bar(no_progress) ==
    [no_progress |-> no_progress, shown |-> <<>>, finished |-> FALSE]

\* utils.rs:61-78 ProgressManager::update
ProgressManager_update(pm, count) ==
    IF pm.no_progress THEN pm ELSE [pm EXCEPT !.shown = Append(@, count)]

\* utils.rs:80-99 ProgressManager::finish
ProgressManager_finish(pm, count) ==
    IF pm.no_progress THEN pm
    ELSE [pm EXCEPT !.shown = Append(@, count), !.finished = TRUE]

\* the loop with the size accumulated inside the progress guard
RECURSIVE CollectLoop_MeasuredWhenShown(_, _, _, _)
CollectLoop_MeasuredWhenShown(batch, acc, measure_size, no_progress) ==
    IF batch = <<>> THEN acc
    ELSE LET f == Head(batch)
             fs == Append(acc.files, f.path)
             ts == acc.total_size
                   + (IF measure_size /\ f.stat /\ ~no_progress THEN f.size ELSE 0)
         IN  CollectLoop_MeasuredWhenShown(Tail(batch), [files |-> fs, total_size |-> ts, pm |-> acc.pm],
                                           measure_size, no_progress)

\* file.rs:130-140: the loop over the valid entries of a batch
RECURSIVE CollectLoop(_, _, _, _)
CollectLoop(batch, acc, measure_size, no_progress) ==
    IF batch = <<>> THEN acc
    ELSE LET f == Head(batch)
             fs == Append(acc.files, f.path)
             ts == acc.total_size + (IF measure_size /\ f.stat THEN f.size ELSE 0)
             pm == IF ~no_progress /\ Len(fs) % CollectReportEvery = 0
                   THEN ProgressManager_update(acc.pm, Len(fs))
                   ELSE acc.pm
         IN  CollectLoop(Tail(batch), [files |-> fs, total_size |-> ts, pm |-> pm],
                         measure_size, no_progress)

\* file.rs:84-164 FileCollector::collect_and_measure_files with its progress
\* manager (created by the callers at file.rs:180, :200)
FileCollector_collect_reporting(t, sets, max_size, measure_size, no_progress) ==
    LET walked == SelectSeq(t.entries,
                      LAMBDA f : filter_entry(FullPath(t.root, f), sets.exclude_set))
        valid == SelectSeq(walked,
                      LAMBDA f : is_file_valid(FullPath(t.root, f), f, sets.include_set,
                                               sets.exclude_set, max_size) = "true")
        batch == [i \in DOMAIN valid |->
                     [path |-> FullPath(t.root, valid[i]), size |-> valid[i].size,
                      stat |-> valid[i].stat]]
        looped == CollectLoop(batch, [files |-> <<>>, total_size |-> 0,
                                      pm |-> create_progress_bar(no_progress)],
                              measure_size, no_progress)
        n == Len(looped.files)
        last == IF ~no_progress /\ n % CollectReportEvery # 0
                THEN ProgressManager_update(looped.pm, n)
                ELSE looped.pm
    IN  IF looped.files = <<>>
        THEN [ok |-> FALSE, err |-> "NoEligibleFiles", files |-> <<>>, total_size |-> 0,
              pm |-> ProgressManager_finish(last, 0)]
        ELSE [ok |-> TRUE, err |-> None, files |-> looped.files,
              total_size |-> looped.total_size, pm |-> ProgressManager_finish(last, n)]

\* zip.rs:71-94: the loop over the entries; a read failure ends it
RECURSIVE CompressLoop(_, _, _, _, _, _, _)
CompressLoop(t, entries, acc, method, pwd, aes, no_progress) ==
    IF entries = <<>> \/ ~acc.ok THEN acc
    ELSE LET e == Head(entries)
         IN  IF ~EntryOf(t, e.path).readable
             THEN [acc EXCEPT !.ok = FALSE]
             ELSE LET ms == Append(acc.members,
                                   Member(e.name, Raw(e.path),
                                          IF pwd # None THEN "Stored" ELSE method,
                                          pwd, aes))
                      pm == IF ~no_progress /\ Len(ms) % CompressReportEvery = 0
                            THEN ProgressManager_update(acc.pm, Len(ms))
                            ELSE acc.pm
                  IN  CompressLoop(t, Tail(entries),
                                   [ok |-> TRUE, members |-> ms, pm |-> pm],
                                   method, pwd, aes, no_progress)

\* zip.rs:45-106 ZipCompressor::compress_files with its progress manager
ZipCompressor_compress_files(t, fs, input_path, method, pwd, aes, no_progress) ==
    LET named == SelectSeq(fs, LAMBDA p : MemberName(p, input_path).some)
        entries == [i \in DOMAIN named |->
                       [path |-> named[i], name |-> MemberName(named[i], input_path).v]]
        looped == CompressLoop(t, entries,
                               [ok |-> TRUE, members |-> <<>>,
                                pm |-> create_progress_bar(no_progress)],
                               method, pwd, aes, no_progress)
        n == Len(looped.members)
        last == IF ~no_progress /\ n % CompressReportEvery # 0
                THEN ProgressManager_update(looped.pm, n)
                ELSE looped.pm
    IN  IF ~looped.ok
        THEN [ok |-> FALSE, err |-> "IoFailure", bytes |-> Raw(<<>>), pm |-> looped.pm]
        ELSE [ok |-> TRUE, err |-> None, bytes |-> Zip(looped.members),
              pm |-> ProgressManager_finish(last, n)]

\* what a progress manager has shown, as steps of the log
ShownSteps(pm) ==
    [i \in DOMAIN pm.shown |->
        IF pm.finished /\ i = Len(pm.shown) THEN "finish" ELSE "update"]

\* the runs of the selection and the encoder with and without --no-progress
InitProgress ==
    /\ rev = "convert" /\ entry = "api"
    /\ tree \in Trees({1, 2}, BOOLEAN, BOOLEAN)
    /\ cfg \in {[c EXCEPT !.no_progress = np] :
                   c \in Configs({{Star}, {DotT}}, {{}, {<<"a">>}}, {NoCap, Some(1)},
                                 BOOLEAN, {"single"}, {"None", "Random"}),
                   np \in BOOLEAN}
    /\ cfg.compress /\ ~cfg.display_password
    /\ pc = "collect"
    /\ files = <<>>
    /\ total_size = 0
    /\ password = IF cfg.password_mode = "None" THEN None ELSE "R1"
    /\ next_file = 1
    /\ buffer = Raw(<<>>)
    /\ units = <<>>
    /\ outdir = {}
    /\ log = <<>>
    /\ result = "running"
    /\ env = NoEnv
    /\ secret = NoSecret
    /\ resolved = Unresolved

\* convert.rs:198, :306: the selection with its reports
CollectReporting ==
    /\ pc = "collect"
    /\ LET got == FileCollector_collect_reporting(
                      tree, create_regex_sets(cfg.include, cfg.exclude), cfg.max_size,
                      whole_tree, cfg.no_progress)
       IN  /\ files' = got.files
           /\ total_size' = got.total_size
           /\ log' = log \o ShownSteps(got.pm)
           /\ IF ~got.ok THEN Done(got.err)
              ELSE IF whole_tree THEN pc' = "encode" /\ result' = result
              ELSE Done("ok")
    /\ UNCHANGED <<resolved, env, secret, rev, entry, cfg, tree, password, next_file,
                   buffer, units, outdir>>

\* convert.rs:326 create_inner_zip: the inner archive with its reports
EncodeReporting ==
    /\ pc = "encode"
    /\ LET got == ZipCompressor_compress_files(tree, files, tree.root, "Stored",
                                               password, aes_mode, cfg.no_progress)
       IN  /\ buffer' = got.bytes
           /\ log' = log \o ShownSteps(got.pm)
           /\ Done(IF got.ok THEN "ok" ELSE got.err)
    /\ UNCHANGED <<resolved, env, secret, rev, entry, cfg, tree, files, total_size,
                   password, next_file, units, outdir>>

NextProgress == CollectReporting \/ EncodeReporting

SpecProgress == InitProgress /\ [][NextProgress]_vars

---------------------------------------------------------------------------
(* The Password Policy on text *)

\* how many samples of the random generator an input holds
StreamLen == 20

\* sample streams of the random generator
Streams == {[i \in 1..StreamLen |-> (i * k) % 62] : k \in {0, 1, 7, 25, 61}}

\* local times between 1970 and 9999
Clocks == [year : {1970, 2026, 9999}, month : {1, 12}, day : {1, 31},
           hour : {0, 23}, minute : {0, 59}, second : {0, 59}]

\* what the user can type at a password prompt (dialoguer refuses an empty
\* entry)
TypedTexts == {<<"p", "w">>, <<"p", "W">>}

\* the inputs of one call of generate_password, those a mode does not read
\* left at their default
PolicyInputs ==
    {[NoEnv EXCEPT !.mode = "Random", !.stream = st] : st \in Streams}
    \cup {[NoEnv EXCEPT !.mode = "Timestamp", !.clock = c] : c \in Clocks}
    \cup {[NoEnv EXCEPT !.mode = "Manual", !.preset = pr, !.typed = <<a, b>>] :
             pr \in {Nothing, Some(<<"p", "s">>)}, a \in TypedTexts, b \in TypedTexts}
    \cup {NoEnv}

InitPassword ==
    /\ rev \in {"main", "convert"}
    /\ entry = "api"
    /\ env \in PolicyInputs
    /\ cfg = [FacadeInteractiveInput EXCEPT !.password_mode = env.mode]
    /\ tree = [root |-> RootR, exists |-> TRUE, entries |-> <<>>]
    /\ pc = "secret"
    /\ files = <<>>
    /\ total_size = 0
    /\ password = None
    /\ next_file = 1
    /\ buffer = Raw(<<>>)
    /\ units = <<>>
    /\ outdir = {}
    /\ log = <<>>
    /\ result = "running"
    /\ secret = NoSecret
    /\ resolved = Unresolved

\* one call of generate_password (utils.rs:163-201, main.rs:664-689) with the
\* text of the secret computed
ResolvePassword ==
    /\ pc = "secret"
    /\ LET got == generate_password(env.mode, env.preset, env.typed,
                                    generate_random_password(PasswordLength, env.stream),
                                    FormatLocal(env.clock))
       IN  /\ secret' = [ok |-> got.ok, some |-> got.some,
                         v |-> IF got.some THEN got.pwd ELSE <<>>]
           /\ result' = IF got.ok THEN "ok" ELSE "PasswordMismatch"
    /\ pc' = "done"
    /\ log' = log \o PolicySteps(env.mode, env.preset)
    /\ UNCHANGED <<resolved, env, rev, entry, cfg, tree, files, total_size, password, next_file,
                   buffer, units, outdir>>

NextPassword == ResolvePassword

SpecPassword == InitPassword /\ [][NextPassword]_vars

---------------------------------------------------------------------------
(* Properties *)

\* the selection has run and returned a list
Selected == (\E i \in DOMAIN log : log[i] = "select") /\ Selection.ok

\* a pattern list matches a path when one of its patterns does; a list that
\* holds a malformed pattern matches nothing
ListMatches(patterns, path) ==
    /\ \A p \in patterns : RegexValid(PatternToRegex(p))
    /\ \E p \in patterns : RegexIsMatch(PatternToRegex(p), path)

Eligible(f) ==
    /\ ListMatches(cfg.include, FullPath(tree.root, f))
    /\ ~ListMatches(cfg.exclude, FullPath(tree.root, f))
    /\ (cfg.max_size.some => f.size <= cfg.max_size.v * BytesPerMB)

\* C1: once the selection has returned, every file under the input root whose
\* size can be read is in the selected list if and only if its path matches
\* an include pattern, matches no exclude pattern, and no cap is set or its
\* size is at most the cap; a file of exactly the cap is selected, and a file
\* matching both lists is not.
C1_SelectionFilter ==
    Selected =>
        \A f \in Range(tree.entries) :
            (cfg.max_size.some => f.stat) =>
                (FullPath(tree.root, f) \in Range(files) <=> Eligible(f))

\* a file of exactly the cap is selected next to a file matching both the
\* include and the exclude list that is not
C1_Witness ==
    /\ Selected
    /\ rev = "convert"
    /\ cfg.max_size.some
    /\ \E f, g \in Range(tree.entries) :
        /\ f.size = cfg.max_size.v * BytesPerMB
        /\ FullPath(tree.root, f) \in Range(files)
        /\ ListMatches(cfg.include, FullPath(tree.root, g))
        /\ ListMatches(cfg.exclude, FullPath(tree.root, g))
        /\ g.stat
        /\ FullPath(tree.root, g) \notin Range(files)

Logged(step) == \E i \in DOMAIN log : log[i] = step

\* no file under the input root is eligible
ZeroEligible == \A f \in Range(tree.entries) : ~Eligible(f)

C3_PerFileEmptyIsSuccess ==
    (~whole_tree /\ ZeroEligible /\ Logged("select")) =>
        /\ pc = "done" /\ result = "ok"
        /\ units = <<>>

\* an archive of exactly one member
OneMember(b) == b.kind = "zip" /\ Len(b.members) = 1

\* every member of the archive b is encrypted with pwd
AllEncrypted(b, pwd) == \A i \in DOMAIN b.members : b.members[i].enc = pwd

\* the archive b holds the bytes of the file p
Holds(b, p) == \E i \in DOMAIN b.members : b.members[i].data = Raw(p)

\* the files whose bytes went into the unit u
InputsOf(u) == IF whole_tree THEN Range(files) ELSE {u.path}

\* C4: every unit built with plan "double" and a secret S, in per-file mode
\* (whatever the compress flag) and in whole-tree mode, is an outer archive
\* whose single member is named "{rootName}_outer.zip" and encrypted with S,
\* and that member's content is an inner archive encrypted with S that holds
\* the original bytes.
C4_DoubleLayerUnlock ==
    \A i \in DOMAIN units :
        LET u == units[i]
        IN  (u.layer = "double" /\ u.password # None) =>
                /\ OneMember(u.bytes)
                /\ u.bytes.members[1].name = u.file_name \o OuterZip
                /\ u.bytes.members[1].enc = u.password
                /\ u.bytes.members[1].data.kind = "zip"
                /\ AllEncrypted(u.bytes.members[1].data, u.password)
                /\ \A p \in InputsOf(u) : Holds(u.bytes.members[1].data, p)

\* the expected download name of a unit
DownloadName(N, layer) ==
    IF layer = "none" THEN N
    ELSE IF layer = "single" THEN N \o DotZip
    ELSE N \o OuterZip

\* C5: on every conversion path the download name handed to the HTML renderer
\* is N for plan "none", N.zip for plan "single" and N_outer.zip for plan
\* "double", N being the root name of the unit.
C5_DownloadName ==
    \A i \in DOMAIN units :
        /\ PathFileName(units[i].path).some
        /\ units[i].file_name = PathFileName(units[i].path).v
        /\ units[i].download_zip_name = DownloadName(units[i].file_name, units[i].layer)

\* C6: in per-file mode every unit built with plan "single" is exactly one
\* ZIP layer whose one member is the payload, encrypted with the secret when
\* there is one and unencrypted otherwise; it is never the raw payload.
C6_SingleIsOneLayer ==
    ~whole_tree =>
        \A i \in DOMAIN units :
            units[i].layer = "single" =>
                /\ OneMember(units[i].bytes)
                /\ units[i].bytes.members[1].data = Raw(units[i].path)
                /\ units[i].bytes.members[1].enc = units[i].password

\* C7: in per-file mode every unit built with plan "none" carries the input
\* file's bytes unchanged.
C7_NoneIsIdentity ==
    ~whole_tree =>
        \A i \in DOMAIN units :
            units[i].layer = "none" => units[i].bytes = Raw(units[i].path)

\* C8: a run configured with plan "none" in whole-tree mode never selects
\* files or encodes, and ends with the configuration error.
C8_NoneWholeTreeRejected ==
    (whole_tree /\ cfg.layer = "none") =>
        /\ ~Logged("select") /\ ~Logged("encode")
        /\ (pc = "done" => result \in {"InvalidInput", "NotFound"})

\* the archive layers of the bytes b: b itself and the archives nested in it
LayersOf(b) ==
    IF b.kind # "zip" THEN {}
    ELSE {b} \cup {b.members[i].data : i \in {j \in DOMAIN b.members :
                                              b.members[j].data.kind = "zip"}}

\* every member of every layer of b is encrypted with pwd and the run's AES
\* mode, or not at all when there is no secret
UniformlyEncrypted(b, pwd) ==
    \A l \in LayersOf(b) : \A i \in DOMAIN l.members :
        /\ l.members[i].enc = pwd
        /\ l.members[i].aes = (IF pwd = None THEN None ELSE aes_mode)

\* C9: in every archive layer the run produces (the inner archive of the
\* whole tree and every layer of every unit), when a secret is present every
\* member is encrypted with that secret and the same AES key length, and when
\* no secret is present no member is encrypted.
C9_EncryptionPerLayer ==
    /\ UniformlyEncrypted(buffer, password)
    /\ \A i \in DOMAIN units : UniformlyEncrypted(units[i].bytes, units[i].password)

\* a double-layer unit with a secret whose inner archive has two members
C9_Witness ==
    /\ rev = "convert"
    /\ whole_tree
    /\ password # None
    /\ \E i \in DOMAIN units :
        /\ units[i].layer = "double"
        /\ OneMember(units[i].bytes)
        /\ units[i].bytes.members[1].data.kind = "zip"
        /\ Len(units[i].bytes.members[1].data.members) = 2

\* an eligible file cannot be read
UnreadableInput == \E f \in Range(tree.entries) : Eligible(f) /\ ~f.readable

\* C10: when a file that goes into the archive of the whole tree cannot be
\* read, the encode call ends the run with the I/O error, no archive bytes are
\* kept and no unit reaches the HTML renderer; in per-file mode no unit is
\* built for a file that cannot be read.
C10_ReadFailureAbortsArchive ==
    /\ (whole_tree /\ UnreadableInput) =>
          /\ buffer = Raw(<<>>)
          /\ units = <<>>
          /\ outdir = {}
          /\ (Logged("encode") => pc = "done" /\ result = "IoFailure")
    /\ ~whole_tree =>
          \A i \in DOMAIN units : EntryOf(tree, units[i].path).readable

\* the encode call of a whole-tree run failed on the second of two selected
\* files, the first being readable
C10_Witness ==
    /\ rev = "convert"
    /\ whole_tree
    /\ Len(files) = 2
    /\ EntryOf(tree, files[1]).readable
    /\ ~EntryOf(tree, files[2]).readable
    /\ Logged("encode")
    /\ result = "IoFailure"

\* the unit of the file p has been handed to the HTML renderer
Converted(p) == \E i \in DOMAIN units : units[i].path = p

\* C11: a per-file run in which the conversion of a file failed still ends
\* with success, every other selected file converted; a whole-tree run in
\* which a file could not be read does not end with success.
C11_BatchRecovery ==
    /\ (~whole_tree /\ pc = "done" /\ Logged("read_failed")) =>
          /\ result = "ok"
          /\ \A p \in Range(files) : EntryOf(tree, p).readable => Converted(p)
    /\ (whole_tree /\ pc = "done" /\ Logged("encode") /\ UnreadableInput) =>
          result # "ok"

Digits == Range(DigitChars)

DigitValue(c) == CHOOSE d \in 0..9 : DigitChars[d + 1] = c

RECURSIVE NumberOf(_)
\* the number a text of digits denotes
NumberOf(t) ==
    IF t = <<>> THEN 0
    ELSE 10 * NumberOf(SubSeq(t, 1, Len(t) - 1)) + DigitValue(t[Len(t)])

\* C12: a successful call of generate_password returns, for mode Random, a
\* secret of exactly 16 characters of [A-Za-z0-9]; for mode Timestamp, a
\* secret of exactly 14 digits, the local time as YYYYMMDDhhmmss; for mode
\* None, no secret; and the result is absent exactly when the mode is None.
C12_PasswordModes ==
    (pc = "done" /\ secret.ok) =>
        /\ (secret.some <=> env.mode # "None")
        /\ env.mode = "Random" =>
              /\ Len(secret.v) = 16
              /\ \A i \in DOMAIN secret.v : secret.v[i] \in Range(AlphanumericCharset)
        /\ env.mode = "Timestamp" =>
              /\ Len(secret.v) = 14
              /\ \A i \in DOMAIN secret.v : secret.v[i] \in Digits
              /\ NumberOf(SubSeq(secret.v, 1, 4)) = env.clock.year
              /\ NumberOf(SubSeq(secret.v, 5, 6)) = env.clock.month
              /\ NumberOf(SubSeq(secret.v, 7, 8)) = env.clock.day
              /\ NumberOf(SubSeq(secret.v, 9, 10)) = env.clock.hour
              /\ NumberOf(SubSeq(secret.v, 11, 12)) = env.clock.minute
              /\ NumberOf(SubSeq(secret.v, 13, 14)) = env.clock.second

\* a timestamp secret whose fields all needed padding, resolved
C12_Witness ==
    /\ pc = "done" /\ secret.ok
    /\ env.mode = "Timestamp"
    /\ env.clock.month = 1 /\ env.clock.second = 0
    /\ secret.v[5] = "0" /\ secret.v[6] = "1"

\* position of the call of generate_password in the log, 0 before it
SecretAt == IF Logged("secret") THEN CHOOSE i \in DOMAIN log : log[i] = "secret" ELSE 0

\* generate_password has prompted
PolicyPrompted == \E i \in DOMAIN log : i > SecretAt /\ log[i] = "prompt"

\* C13: in mode Manual, once generate_password has been called: with a preset
\* secret the secret of the run is the preset and nothing was prompted for;
\* without one the two entries were asked for, and if they differ the run has
\* ended with the mismatch error, has no secret, and has encoded and written
\* nothing, while if they agree the secret is the entry.
C13_ManualMode ==
    (cfg.password_mode = "Manual" /\ Logged("secret")) =>
        IF PresetOf(rev, entry, cfg).some
        THEN /\ password = PresetOf(rev, entry, cfg).v
             /\ ~PolicyPrompted
        ELSE /\ PolicyPrompted
             /\ IF cfg.typed[1] # cfg.typed[2]
                THEN /\ pc = "done" /\ result = "PasswordMismatch"
                     /\ password = None
                     /\ ~Logged("encode")
                     /\ units = <<>> /\ outdir = {}
                ELSE password = cfg.typed[1]

\* the two entries differed and the run ended with the mismatch
C13_Witness ==
    /\ cfg.password_mode = "Manual"
    /\ rev = "convert"
    /\ Logged("secret") /\ PolicyPrompted
    /\ cfg.typed[1] # cfg.typed[2]
    /\ files # <<>>
    /\ result = "PasswordMismatch"

\* how often a step was taken
Count(step) == Cardinality({i \in DOMAIN log : log[i] = step})

\* C14: in a per-file run that has converted files, the secret was prompted
\* for (mode Manual) or generated (modes Random and Timestamp) exactly once,
\* and every unit, every archive layer and every key file carries that one
\* secret.
C14_OneSecretPerRun ==
    (~whole_tree /\ units # <<>>) =>
        /\ cfg.password_mode = "Manual" => Count("prompt") = 1
        /\ cfg.password_mode \in {"Random", "Timestamp"} => Count("secret") = 1
        /\ \A i \in DOMAIN units :
              /\ units[i].password = password
              /\ UniformlyEncrypted(units[i].bytes, password)
        /\ \A e \in outdir : e.content.kind = "key" => e.content.pwd = password

\* the characters of the modelled paths in byte order
CharOrder == <<".", "/", "a", "b", "d", "r", "t">>

Rank(c) == CHOOSE i \in DOMAIN CharOrder : CharOrder[i] = c

RECURSIVE LexLeq(_, _)
\* a is at or before b in the byte-wise order of texts
LexLeq(a, b) ==
    IF a = <<>> THEN TRUE
    ELSE IF b = <<>> THEN FALSE
    ELSE IF Head(a) # Head(b) THEN Rank(Head(a)) < Rank(Head(b))
    ELSE LexLeq(Tail(a), Tail(b))

\* the list of paths l is in ascending order of path-within-archive
SortedByMemberName(l) ==
    \A i, j \in DOMAIN l :
        i < j => LexLeq(MemberName(l[i], tree.root).v,
                        MemberName(l[j], tree.root).v)

\* C15: the entry list the File Selector returned is a function of the tree
\* and the criteria alone (the same list, in the same order, whatever the
\* workers did), and when the Archive Encoder receives it, it is sorted by
\* path-within-archive.
C15_SelectionDeterminism ==
    /\ (Logged("select") /\ Selection.ok /\ pc # "done") => files = Selection.files
    /\ (whole_tree /\ Logged("encode")) => SortedByMemberName(files)

\* the text s has a ".." segment
HasDotDot(s) ==
    \E i \in DOMAIN s :
        /\ i < Len(s) /\ s[i] = "." /\ s[i + 1] = "."
        /\ (i = 1 \/ s[i - 1] = "/")
        /\ (i + 1 = Len(s) \/ s[i + 2] = "/")

\* C16: once the whole tree is encoded, the inner archive has one member per
\* selected file, in list order, and the member's name is the file's path
\* relative to the input root: not empty, without a leading "./", without a
\* "\" and without a ".." segment.
C16_MemberNames ==
    (whole_tree /\ pc = "finalize") =>
        /\ Len(buffer.members) = Len(files)
        /\ \A i \in DOMAIN buffer.members :
              LET name == buffer.members[i].name
              IN  /\ i \in DOMAIN files /\ name = EntryOf(tree, files[i]).rel
                  /\ name # <<>>
                  /\ ~IsPrefix(<<".", "/">>, name)
                  /\ \A k \in DOMAIN name : name[k] # "\\"
                  /\ ~HasDotDot(name)

\* a pattern the code calls invalid: one that validate_file_patterns refuses
\* or one whose regular expression does not compile
Malformed(p) == ~is_valid_pattern(p) \/ ~RegexValid(PatternToRegex(p))

\* a pattern list whose regular expressions do not all compile
Uncompilable(patterns) == \E p \in patterns : ~RegexValid(PatternToRegex(p))

\* C17: a run whose include or exclude list holds a malformed pattern never
\* ends with an error about the pattern and reaches the selection; an include
\* list that does not compile selects no file, and an exclude list that does
\* not compile excludes no file.
C17_PatternsDegrade ==
    /\ ((\E p \in cfg.include \cup cfg.exclude : Malformed(p)) /\ pc = "done") =>
          result # "InvalidInput" /\ Logged("select")
    /\ (Logged("select") /\ Uncompilable(cfg.include)) => files = <<>>
    /\ (Selected /\ Uncompilable(cfg.exclude)) =>
          \A f \in Range(tree.entries) :
              ( /\ f.stat
                /\ ListMatches(cfg.include, FullPath(tree.root, f))
                /\ (cfg.max_size.some => f.size <= cfg.max_size.v * BytesPerMB) )
              => FullPath(tree.root, f) \in Range(files)

\* the size cap is set and the eligibility check of f fails or finds f over
\* the cap
CapSkips(f) ==
    cfg.max_size.some /\ (~f.stat \/ f.size > cfg.max_size.v * BytesPerMB)

\* C18: when the selection has run over a tree that holds an eligible file,
\* it has returned a list and not an error; the list holds every eligible
\* file and no file that is over the cap or whose metadata cannot be read.
C18_SelectionSkips ==
    (/\ Logged("select")
     /\ \E g \in Range(tree.entries) : ~CapSkips(g) /\ Eligible(g)) =>
        /\ Selection.ok
        /\ result \notin {"IoFailure", "NoEligibleFiles"}
        /\ \A f \in Range(tree.entries) :
              /\ CapSkips(f) => FullPath(tree.root, f) \notin Range(files)
              /\ (~CapSkips(f) /\ Eligible(f)) => FullPath(tree.root, f) \in Range(files)

\* C19: a run on an input path that does not exist does nothing but end with
\* NotFound: the output directory is not created, no file is selected, no
\* secret is asked for or generated, nothing is encoded and nothing written.
C19_MissingRoot ==
    ~tree.exists =>
        /\ pc \in {"start", "done"} \/ (rev = "facade" /\ pc = "collect")
        /\ pc = "done" => result = "NotFound"
        /\ ~Logged("mkdir") /\ ~Logged("secret") /\ ~Logged("prompt")
        /\ ~Logged("encode") /\ ~Logged("html") /\ ~Logged("key")
        /\ files = <<>> /\ password = None /\ units = <<>> /\ outdir = {}

\* a run of the convert generation has ended with NotFound on a missing path
C19_Witness ==
    ~tree.exists /\ rev = "convert" /\ pc = "done" /\ result = "NotFound"

\* the files of the output directory named as the key file of the unit u
KeyFilesOf(u) == {e \in outdir : e.name = u.file_name \o DotHtmlKey}

\* C20: for every unit handed to the HTML renderer, the output directory
\* holds a file named after the unit with the suffix ".html.key" if and only
\* if the unit has a secret that is not displayed inline; that file holds the
\* secret and nothing else, and the directory holds no other key file.
C20_SidecarKey ==
    /\ \A i \in DOMAIN units :
          /\ KeyFilesOf(units[i]) # {}
                <=> (units[i].password # None /\ ~units[i].display_password)
          /\ \A e \in KeyFilesOf(units[i]) :
                e.content = [kind |-> "key", pwd |-> units[i].password, unit |-> 0]
    /\ \A e \in outdir :
          e.content.kind = "key" => \E i \in DOMAIN units : e \in KeyFilesOf(units[i])

\* a unit of the convert generation whose secret went to its key file
C20_Witness ==
    /\ rev = "convert"
    /\ \E i \in DOMAIN units :
          /\ units[i].password # None /\ ~units[i].display_password
          /\ KeyFilesOf(units[i]) # {}

\* C21: in the main and convert generations, whose callers choose the
\* compression level, every member of the inner archive of a whole-tree run is
\* written with the method of that level, with or without a secret.
C21_MethodIndependentOfSecret ==
    (whole_tree /\ pc = "finalize" /\ rev # "facade") =>
        \A i \in DOMAIN buffer.members :
            buffer.members[i].method = MethodOf(cfg.compression_level)

\* C22: a conversion of the facade runs with the configuration its adapter
\* resolved: the mode, the layer plan, the password mode, the display flag and
\* the patterns the pipeline works with are the resolved ones, every unit is
\* built with the resolved plan, and an archive of the whole tree is encoded
\* only when the resolved mode is whole-tree.
C22_OneResolvedConfiguration ==
    (rev = "facade" /\ resolved.some) =>
        /\ cfg.is_compressed = resolved.v.is_compressed
        /\ cfg.layer = resolved.v.layer
        /\ cfg.password_mode = resolved.v.password_mode
        /\ cfg.display_password = resolved.v.display_password
        /\ cfg.include = resolved.v.include /\ cfg.exclude = resolved.v.exclude
        /\ \A i \in DOMAIN units : units[i].layer = resolved.v.layer
        /\ pc \in {"encode", "finalize"} => resolved.v.is_compressed

\* the text s ends with the text t
EndsWith(s, t) == Len(t) <= Len(s) /\ SubSeq(s, Len(s) - Len(t) + 1, Len(s)) = t

\* the extension an include pattern of the form "*.EXT" names: ".EXT"
ExtensionOf(pattern) == Tail(pattern)

\* C23: when every include pattern has the form "*.EXT", every selected file
\* has a file name that ends with the extension of one of the patterns.
C23_IncludeByExtension ==
    (\A p \in cfg.include : Len(p) > 2 /\ p[1] = "*" /\ p[2] = ".") =>
        \A i \in DOMAIN files :
            \E p \in cfg.include :
                EndsWith(PathFileName(files[i]).v, ExtensionOf(p))

\* C24: the inner archive a whole-tree run has built holds one member per
\* selected file, in the order of the list, and the member at a position
\* holds the content of the file at that position.
C24_MembersMirrorList ==
    (whole_tree /\ pc = "finalize") =>
        /\ buffer.kind = "zip"
        /\ Len(buffer.members) = Len(files)
        /\ \A i \in DOMAIN files : buffer.members[i].data = Raw(files[i])

\* the convert generation has built the archive of two files under ".."
C24_Witness ==
    /\ whole_tree /\ pc = "finalize" /\ rev = "convert"
    /\ tree.root = <<".", ".">>
    /\ Len(files) = 2 /\ Len(buffer.members) = 2

\* C25: every encoder call of a run comes after the call of generate_password
\* and after every prompt for the secret; a run in mode Manual whose two
\* entries differ never calls the encoder, builds no archive, writes no HTML
\* and no key file, and once it has asked for the secret it ends with the
\* mismatch.
C25_SecretBeforeEncoding ==
    /\ \A i \in DOMAIN log :
          log[i] = "encode" =>
              /\ \E j \in 1..(i - 1) : log[j] = "secret"
              /\ \A j \in DOMAIN log : log[j] = "prompt" => j < i
    /\ (cfg.password_mode = "Manual" /\ cfg.typed[1] # cfg.typed[2]) =>
          /\ ~Logged("encode") /\ ~Logged("html") /\ ~Logged("key")
          /\ buffer = Raw(<<>>) /\ units = <<>> /\ outdir = {}
          /\ (pc = "done" /\ (Logged("secret") \/ Logged("prompt")))
                => result = "PasswordMismatch"

\* the command line of the convert generation has refused two differing
\* entries before the pipeline started
C25_Witness ==
    /\ rev = "convert" /\ entry = "cli"
    /\ cfg.password_mode = "Manual" /\ cfg.typed[1] # cfg.typed[2]
    /\ log = <<"validate", "prompt">>
    /\ pc = "done" /\ result = "PasswordMismatch"

RECURSIVE SizeOfAll(_)
\* the sum of the sizes on disk of the files with the paths ps
SizeOfAll(ps) ==
    IF ps = <<>> THEN 0 ELSE EntryOf(tree, Head(ps)).size + SizeOfAll(Tail(ps))

\* C26: the size a unit reports is the sum of the sizes of the files in its
\* archive: of all selected files for the unit of a whole-tree run, of the
\* unit's own file for a unit of a per-file run.
C26_ReportedTotalSize ==
    \A i \in DOMAIN units :
        units[i].size = IF whole_tree THEN SizeOfAll(files)
                        ELSE EntryOf(tree, units[i].path).size

\* C27: progress reporting has no effect on results: with the same tree and
\* criteria, the run with progress shown and the run with it suppressed give
\* the same selected list (contents and order), the same total size, the same
\* archive members and the same success or error outcome; the state reached
\* is the one the run with the other setting would have reached.
C27_ProgressHasNoEffect ==
    LET sets == create_regex_sets(cfg.include, cfg.exclude)
        other == FileCollector_collect_reporting(tree, sets, cfg.max_size, whole_tree,
                                                 ~cfg.no_progress)
        zipped == ZipCompressor_compress_files(tree, other.files, tree.root, "Stored",
                                               password, aes_mode, ~cfg.no_progress)
    IN  /\ pc # "collect" => /\ files = other.files
                             /\ total_size = other.total_size
                             /\ ~other.ok => (pc = "done" /\ result = other.err)
                             /\ other.ok => result # "NoEligibleFiles"
        /\ (pc = "done" /\ whole_tree /\ other.ok) =>
               /\ buffer = zipped.bytes
               /\ result = (IF zipped.ok THEN "ok" ELSE zipped.err)
        /\ cfg.no_progress => log = <<>>
        /\ pc # "collect" =>
               LET plain == FileCollector_collect(tree, sets, cfg.max_size, whole_tree)
               IN  files = plain.files /\ total_size = plain.total_size
        /\ (pc = "done" /\ whole_tree /\ other.ok) =>
               buffer = create_inner_zip("convert", tree, tree.root, files, "Stored",
                                         password, aes_mode).bytes

\* a whole-tree run that showed its progress and finished with two members
C27_Witness ==
    /\ pc = "done" /\ result = "ok" /\ whole_tree /\ ~cfg.no_progress
    /\ Len(files) = 2 /\ total_size > 0
    /\ buffer.kind = "zip" /\ Len(buffer.members) = 2
    /\ log = <<"update", "finish", "update", "finish">>

\* C28: no output collision in per-file mode: after a per-file run in which
\* every conversion succeeded, the output directory holds one distinct HTML
\* file per selected input file, every unit's HTML file is still the one that
\* unit wrote (no later unit has overwritten it), and there are as many key
\* files as units that stored their secret.
C28_NoOutputCollision ==
    (/\ ~whole_tree /\ pc = "done" /\ result = "ok"
     /\ \A i \in DOMAIN files : EntryOf(tree, files[i]).readable) =>
        /\ Len(units) = Len(files)
        /\ Cardinality({e \in outdir : e.content.kind = "html"}) = Len(files)
        /\ \A i \in DOMAIN units :
              \E e \in outdir : /\ e.name = units[i].file_name \o DotHtml
                                /\ e.content.unit = i
        /\ Cardinality({e \in outdir : e.content.kind = "key"}) =
               Cardinality({i \in DOMAIN units :
                               units[i].password # None /\ ~units[i].display_password})

\* the unit u reports its secret: the HTML shows it inline, or the key file
\* named after the unit holds it
Reports(u) ==
    /\ u.password # None
    /\ \/ u.display_password
       \/ \E e \in outdir : /\ e.name = u.file_name \o DotHtmlKey
                            /\ e.content.pwd = u.password

\* C29: a reported secret is a used secret: whenever a unit reports a secret,
\* the bytes embedded in that unit are an archive whose members are encrypted
\* with that secret; no secret is reported for a unit built with plan "none".
C29_ReportedSecretIsUsed ==
    \A i \in DOMAIN units :
        Reports(units[i]) =>
            /\ units[i].layer # "none"
            /\ units[i].bytes.kind = "zip"
            /\ units[i].bytes.members # <<>>
            /\ AllEncrypted(units[i].bytes, units[i].password)

\* the paths relative to the root of t of the files of t listed in fs
RelsOf(t, fs) == {f.rel : f \in {g \in Range(t.entries) : FullPath(t.root, g) \in Range(fs)}}

\* C30: the selection is independent of where the root lives: the selected
\* relative paths of the run equal the relative paths the same selector, with
\* the same criteria, selects from the identical tree under any other root,
\* and both selections succeed or fail alike.
C30_SelectionIndependentOfRoot ==
    Logged("select") =>
        \A r \in {RootR, RootA} :
            LET moved == [tree EXCEPT !.root = r]
            IN  /\ SelectionOf(moved).ok = Selection.ok
                /\ RelsOf(moved, SelectionOf(moved).files) = RelsOf(tree, Selection.files)
                /\ Selection.ok => RelsOf(tree, files) = RelsOf(moved, SelectionOf(moved).files)

===========================================================================
